---- MODULE Spec2Model ----
(***************************************************************************)
(* Shopify product sync (sync.py): paginated fetch of the catalog,         *)
(* transform of each raw product into the products-table row, INSERT OR    *)
(* REPLACE of every row in one transaction, and the trigger_sync /         *)
(* sync_trigger drivers around them.                                       *)
(***************************************************************************)
EXTENDS Integers, Sequences, FiniteSets, TLC

(***************************************************************************)
(* Bounds of the model.                                                    *)
(***************************************************************************)
MaxStrLen == 2      \* longest price string that is enumerated
MaxPages == 2       \* most pages the server holds
MaxPageLen == 2     \* most records in one page of the model
MaxBatch == 2       \* longest batch handed directly to sync_products_to_db
MaxClock == 1       \* the clock stops advancing here
MaxTriggers == 2    \* most requests POST /sync/trigger receives

limit == 250        \* Product.find(limit=250, page=page)

(***************************************************************************)
(* Python values.  A str is its sequence of characters, a float is the     *)
(* exact decimal m / 10^e in lowest form, None is PyNone.  A dict is a     *)
(* function whose DOMAIN is the set of keys that are present.              *)
(***************************************************************************)
PyNone == [kind |-> "none"]
PyStr(s) == [kind |-> "str", s |-> s]
PyInt(n) == [kind |-> "int", n |-> n]
PyFloat(m, e) == [kind |-> "float", m |-> m, e |-> e]
PyList(xs) == [kind |-> "list", xs |-> xs]

EmptyDict == [k \in {} |-> PyNone]

\* dict.get(key): the value, or None when the key is absent
Get(d, key) == IF key \in DOMAIN d THEN d[key] ELSE PyNone

\* dict.get(key, default)
GetOr(d, key, default) == IF key \in DOMAIN d THEN d[key] ELSE default

\* Python truth value of v (the test of `x if v else y`)
Truthy(v) ==
    CASE v.kind = "none" -> FALSE
      [] v.kind = "str" -> Len(v.s) > 0
      [] v.kind = "int" -> v.n # 0
      [] v.kind = "float" -> v.m # 0
      [] v.kind = "list" -> Len(v.xs) > 0

Digits == {"0", "7"}
Alphabet == Digits \cup {".", "x"}

DigitVal(c) == IF c = "7" THEN 7 ELSE 0

RECURSIVE DigitsToNat(_)
DigitsToNat(ds) ==
    IF ds = << >> THEN 0
    ELSE 10 * DigitsToNat(SubSeq(ds, 1, Len(ds) - 1)) + DigitVal(ds[Len(ds)])

RECURSIVE Normalize(_, _)
Normalize(m, e) ==
    IF e > 0 /\ m % 10 = 0 THEN Normalize(m \div 10, e - 1) ELSE PyFloat(m, e)

Raised == [kind |-> "raise"]

\* float(s) for a str s: digits with at most one point and at least one
\* digit; anything else is a ValueError
FloatOfStr(s) ==
    LET dots == {i \in 1..Len(s) : s[i] = "."}
        digs == {i \in 1..Len(s) : s[i] \in Digits}
    IN  IF dots \cup digs # 1..Len(s) \/ Cardinality(dots) > 1 \/ digs = {}
        THEN Raised
        ELSE LET ds == SelectSeq(s, LAMBDA c : c \in Digits)
                 e == IF dots = {} THEN 0
                      ELSE Len(s) - (CHOOSE i \in dots : TRUE)
             IN  Normalize(DigitsToNat(ds), e)

\* float(v)
FloatOf(v) ==
    CASE v.kind = "str" -> FloatOfStr(v.s)
      [] v.kind = "int" -> PyFloat(v.n, 0)
      [] v.kind = "float" -> v
      [] OTHER -> Raised

ProductKeys == {"id", "title", "body_html", "vendor", "product_type",
                "created_at", "updated_at", "published_at", "status"}
VariantKeys == {"price", "compare_at_price", "sku", "inventory_quantity"}
Columns == {"id", "title", "description", "vendor", "product_type",
            "created_at", "updated_at", "published_at", "status", "price",
            "compare_at_price", "sku", "inventory_quantity", "last_synced_at"}

\* product.get('variants', [{}])[0] without the test of product.get('variants'):
\* an IndexError on an empty list, a TypeError on None
FirstVariant_Unguarded(product) ==
    LET v == GetOr(product, "variants", PyList(<<EmptyDict>>))
    IN  IF v.kind = "list" /\ Len(v.xs) > 0 THEN v.xs[1] ELSE Raised

\* variant = product.get('variants', [{}])[0] if product.get('variants') else {}
FirstVariant(product) ==
    IF Truthy(Get(product, "variants"))
    THEN GetOr(product, "variants", PyList(<<EmptyDict>>)).xs[1]
    ELSE EmptyDict

\* float(variant.get(key, 0)) without the truth test: 0.0 for an absent key
PriceOf_NoTruthTest(variant, key) == FloatOf(GetOr(variant, key, PyInt(0)))

\* float(variant.get(key, 0)) if variant.get(key) else None
PriceOf(variant, key) ==
    IF Truthy(Get(variant, key)) THEN FloatOf(GetOr(variant, key, PyInt(0)))
    ELSE PyNone

\* transform_product_data(product), with utcnow() reading now; Raised when
\* the body raises
transform_product_data(product, now) ==
    LET variant == FirstVariant(product)
        price == PriceOf(variant, "price")
        compare == PriceOf(variant, "compare_at_price")
    IN  IF variant = Raised THEN Raised
        ELSE IF price = Raised \/ compare = Raised THEN Raised
        ELSE [id |-> Get(product, "id"),
              title |-> Get(product, "title"),
              description |-> Get(product, "body_html"),
              vendor |-> Get(product, "vendor"),
              product_type |-> Get(product, "product_type"),
              created_at |-> Get(product, "created_at"),
              updated_at |-> Get(product, "updated_at"),
              published_at |-> Get(product, "published_at"),
              status |-> Get(product, "status"),
              price |-> price,
              compare_at_price |-> compare,
              sku |-> Get(variant, "sku"),
              inventory_quantity |-> Get(variant, "inventory_quantity"),
              last_synced_at |-> now]

(***************************************************************************)
(* Raw products.                                                           *)
(***************************************************************************)
SampleValue(key) ==
    CASE key = "id" -> PyInt(1)
      [] key = "inventory_quantity" -> PyInt(7)
      [] key = "price" -> PyStr(<<"7", ".", "7">>)
      [] key = "compare_at_price" -> PyStr(<<"7", "7">>)
      [] OTHER -> PyStr(<<key>>)

\* the dict that holds exactly the keys of present, with their sample values
Sample(present) == [k \in present |-> SampleValue(k)]

WithVariants(product, variants) == product @@ ("variants" :> variants)

Strs(n) == UNION {[1..k -> Alphabet] : k \in 0..n}

PriceValues ==
    {PyNone, PyInt(0), PyInt(7), PyFloat(0, 0)} \cup {PyStr(s) : s \in Strs(MaxStrLen)}

\* variants whose keys are any subset of the variant keys
SparseVariants == {Sample(present) : present \in SUBSET VariantKeys}

\* variants with every key, price and compare_at_price over PriceValues
PricedVariants ==
    {Sample(VariantKeys \ {"price", "compare_at_price"}) @@ p @@ c :
        p \in {EmptyDict} \cup {("price" :> v) : v \in PriceValues},
        c \in {EmptyDict} \cup {("compare_at_price" :> v) : v \in PriceValues}}

\* products with any subset of the product keys; variants absent, None, empty
\* or one sparse variant
SparseProducts ==
    {Sample(present) : present \in SUBSET ProductKeys}
    \cup {WithVariants(Sample(present), vs) :
            present \in SUBSET ProductKeys,
            vs \in {PyNone, PyList(<< >>)} \cup {PyList(<<v>>) : v \in SparseVariants}}

\* complete products whose first variant is priced; a second variant may follow
PricedProducts ==
    {WithVariants(Sample(ProductKeys), PyList(vs)) :
        vs \in {<<v>> : v \in PricedVariants}
               \cup {<<v, Sample(VariantKeys)>> : v \in PricedVariants}}

RawProducts == SparseProducts \cup PricedProducts

ProductA == WithVariants(Sample(ProductKeys), PyList(<<Sample(VariantKeys)>>))
ProductA2 ==
    WithVariants(("title" :> PyStr(<<"t", "2">>)) @@ Sample(ProductKeys), PyList(<< >>))
ProductB ==
    WithVariants(("id" :> PyInt(2)) @@ Sample(ProductKeys),
                 PyList(<<("price" :> PyStr(<<"0">>)) @@ Sample(VariantKeys)>>))
ProductBad ==
    WithVariants(("id" :> PyInt(3)) @@ Sample(ProductKeys),
                 PyList(<<("price" :> PyStr(<<"x">>)) @@ Sample(VariantKeys)>>))

\* all sequences over S of length lo..hi
SeqsOf(S, lo, hi) == UNION {[1..k -> S] : k \in lo..hi}

Min(a, b) == IF a < b THEN a ELSE b

\* what the server holds: up to MaxPages pages, each of at most limit records;
\* a page may be empty
CatalogRecords == {ProductA, ProductBad}
Pages == SeqsOf(CatalogRecords, 0, Min(limit, MaxPageLen))
Catalogs == SeqsOf(Pages, 0, MaxPages)

\* catalogs of one-record pages
SmallCatalogs == SeqsOf(SeqsOf(CatalogRecords, 1, 1), 0, MaxPages)

\* the batches a caller hands to sync_products_to_db
Batches == SeqsOf({ProductA, ProductA2, ProductB, ProductBad}, 0, MaxBatch)

EnvVars == {"SHOPIFY_SHOP_URL", "SHOPIFY_ACCESS_TOKEN", "SHOPIFY_API_KEY",
            "SHOPIFY_API_SECRET"}

Workers == 1..MaxTriggers

(***************************************************************************)
(* State.                                                                  *)
(***************************************************************************)
VARIABLES
    env,            \* the environment variables set to a non-empty value
    catalog,        \* the pages the server holds
    db,             \* the committed rows of the products table
    source,         \* id -> the raw product whose write the committed row is
    lock,           \* the worker whose connection holds the write lock, or 0
    clock,          \* what utcnow() returns
    responses,      \* the responses sync_trigger has returned
    started,        \* how many threads thread.start() has started
    pc,             \* where each worker stands
    page,           \* get_all_products: page
    products,       \* get_all_products: products; sync_products_to_db: products
    requests,       \* the pages asked of Product.find by this call, in order,
                    \* each with whether the request was answered
    idx,            \* how many products the for loop has taken
    current_time,   \* sync_products_to_db: current_time
    success_count,  \* sync_products_to_db: success_count
    error_count,    \* sync_products_to_db: error_count
    pending,        \* the rows written on the connection and not committed
    written,        \* id -> the raw product of the pending row
    stamps,         \* the last_synced_at values this call has written
    outcomes,       \* "ok" or "failed" for each product the loop has taken
    before,         \* the committed rows when sync_products_to_db was called
    start,          \* the committed rows when trigger_sync was called
    result,         \* what trigger_sync returned
    log,            \* the calls trigger_sync has made, in order
    conn,           \* the sqlite3 connection of the run: "none" before
                    \* sqlite3.connect returns, then "open", then "closed"
    tin,            \* transform_product_data: the argument
    tout            \* transform_product_data: the value returned

vars == <<env, catalog, db, source, lock, clock, responses, started, pc, page,
          products, requests, idx, current_time, success_count, error_count,
          pending, written, stamps, outcomes, before, start, result, log,
          conn, tin, tout>>

serverVars == <<env, catalog>>
storeVars == <<db, source, lock>>
httpVars == <<responses, started>>
fetchVars == <<page, requests>>
syncVars == <<idx, current_time, success_count, error_count, pending, written,
              stamps, outcomes, before>>
transformVars == <<tin, tout>>

NoResult == [status |-> "none"]
NotCalled == [kind |-> "notcalled"]
NoSource == [i \in {} |-> EmptyDict]

Set(f, w, v) == [f EXCEPT ![w] = v]

\* the state of the workers before anything runs; worker 1 stands at at
WorkersInit(at) ==
    /\ pc = [w \in Workers |-> IF w = 1 THEN at ELSE "unborn"]
    /\ page = [w \in Workers |-> 1]
    /\ products = [w \in Workers |-> << >>]
    /\ requests = [w \in Workers |-> << >>]
    /\ idx = [w \in Workers |-> 0]
    /\ current_time = [w \in Workers |-> 0]
    /\ success_count = [w \in Workers |-> 0]
    /\ error_count = [w \in Workers |-> 0]
    /\ pending = [w \in Workers |-> {}]
    /\ written = [w \in Workers |-> NoSource]
    /\ stamps = [w \in Workers |-> {}]
    /\ outcomes = [w \in Workers |-> << >>]
    /\ before = [w \in Workers |-> {}]
    /\ start = [w \in Workers |-> {}]
    /\ result = [w \in Workers |-> NoResult]
    /\ log = [w \in Workers |-> << >>]
    /\ conn = [w \in Workers |-> "none"]

RestInit ==
    /\ lock = 0
    /\ clock = 0
    /\ responses = << >>
    /\ started = 0
    /\ tout = NotCalled

(***************************************************************************)
(* transform_product_data called on its own (test_transform_product_data). *)
(***************************************************************************)
Transform ==
    /\ tout = NotCalled
    /\ tout' = transform_product_data(tin, clock)
    /\ UNCHANGED <<serverVars, storeVars, httpVars, fetchVars, syncVars, clock,
                   pc, products, start, result, log, conn, tin>>

InitTransform ==
    /\ WorkersInit("unborn")
    /\ RestInit
    /\ env = EnvVars
    /\ catalog = << >>
    /\ db = {}
    /\ source = NoSource
    /\ tin \in RawProducts

SpecTransform == InitTransform /\ [][Transform]_vars

(***************************************************************************)
(* get_all_products.                                                       *)
(***************************************************************************)
\* shopify.Product.find(limit=250, page=n): the page the server holds there,
\* empty past its last page
Find(n) == IF n <= Len(catalog) THEN catalog[n] ELSE << >>

\* `if not batch: break` taken as a test for a page that is not full
LastPage_ShortPage(batch) == Len(batch) < Min(limit, MaxPageLen)

\* if not batch: break
LastPage(batch) == batch = << >>

\* except Exception that returns what was fetched so far
FetchRaises_ReturnsPartial(w) ==
    /\ pc' = Set(pc, w, "fetched")
    /\ UNCHANGED <<products, page>>

\* except Exception: logger.error(...); raise
FetchRaises(w) ==
    /\ pc' = Set(pc, w, "fetch_raised")
    /\ products' = Set(products, w, << >>)
    /\ page' = page

\* one turn of the while loop: ask for the page; the request may raise, which
\* get_all_products logs and raises again with nothing returned
FetchPage(w) ==
    /\ pc[w] = "fetch"
    /\ \E ok \in BOOLEAN :
        /\ requests' = Set(requests, w,
                           Append(requests[w], [page |-> page[w], ok |-> ok]))
        /\ IF ~ok
           THEN FetchRaises(w)
           ELSE IF LastPage(Find(page[w]))
           THEN /\ pc' = Set(pc, w, "fetched")
                /\ UNCHANGED <<products, page>>
           ELSE /\ products' = Set(products, w, products[w] \o Find(page[w]))
                /\ page' = Set(page, w, page[w] + 1)
                /\ pc' = pc
    /\ UNCHANGED <<serverVars, storeVars, httpVars, syncVars, transformVars,
                   clock, start, result, log, conn>>

(***************************************************************************)
(* sync_products_to_db.                                                    *)
(***************************************************************************)
\* INSERT without OR REPLACE that keeps the row already there
InsertOrReplace_KeepOld(table, row) ==
    IF \E r \in table : r.id = row.id THEN table ELSE table \cup {row}

\* INSERT OR REPLACE INTO products: the row with this id goes, the new row comes
InsertOrReplace(table, row) == {r \in table : r.id # row.id} \cup {row}

\* conn.commit(): the pending rows replace the committed rows of their ids
Committed(table, rows) ==
    {r \in table : \A q \in rows : q.id # r.id} \cup rows

\* conn.rollback() that lets the pending rows through
RolledBack_Publishes(table, rows) == Committed(table, rows)

\* conn.rollback(): the pending rows are dropped
RolledBack(table, rows) == table

\* the entry of sync_products_to_db(batch, conn): cursor, current_time, counts
SyncEnter(w, batch) ==
    /\ products' = Set(products, w, batch)
    /\ current_time' = Set(current_time, w, clock)
    /\ clock' = clock
    /\ idx' = Set(idx, w, 0)
    /\ success_count' = Set(success_count, w, 0)
    /\ error_count' = Set(error_count, w, 0)
    /\ stamps' = Set(stamps, w, {})
    /\ outcomes' = Set(outcomes, w, << >>)
    /\ before' = Set(before, w, db)
    /\ pc' = Set(pc, w, "sync")
    /\ UNCHANGED <<pending, written>>

\* the counts after a product that failed: a slip that counts it as synced
CountFailure_AsSuccess(w) ==
    /\ success_count' = Set(success_count, w, success_count[w] + 1)
    /\ error_count' = error_count

\* except Exception: error_count += 1; continue
CountFailure(w) ==
    /\ error_count' = Set(error_count, w, error_count[w] + 1)
    /\ success_count' = success_count

\* one turn of the for loop: transform the product and execute the INSERT OR
\* REPLACE; execute raises when the statement fails or when another
\* connection holds the write lock
UpsertRecord(w) ==
    /\ pc[w] = "sync"
    /\ idx[w] < Len(products[w])
    /\ \E now \in clock..Min(clock + 1, MaxClock), ok \in BOOLEAN :
        LET product == products[w][idx[w] + 1]
            row == transform_product_data(product, now)
        IN  /\ clock' = now
            /\ IF row # Raised /\ ok /\ lock \in {0, w}
               THEN /\ pending' = Set(pending, w, InsertOrReplace(pending[w], row))
                    /\ written' = Set(written, w, (row.id :> product) @@ written[w])
                    /\ stamps' = Set(stamps, w, stamps[w] \cup {row.last_synced_at})
                    /\ lock' = w
                    /\ outcomes' = Set(outcomes, w, Append(outcomes[w], "ok"))
                    /\ success_count' = Set(success_count, w, success_count[w] + 1)
                    /\ error_count' = error_count
               ELSE /\ CountFailure(w)
                    /\ outcomes' = Set(outcomes, w, Append(outcomes[w], "failed"))
                    /\ UNCHANGED <<pending, written, stamps, lock>>
    /\ idx' = Set(idx, w, idx[w] + 1)
    /\ UNCHANGED <<serverVars, httpVars, fetchVars, transformVars, db, source,
                   current_time, before, start, pc, products, result, log, conn>>

\* conn.commit() after the loop
Commit(w) ==
    /\ pc[w] = "sync"
    /\ idx[w] = Len(products[w])
    /\ db' = Committed(db, pending[w])
    /\ source' = written[w] @@ source
    /\ pending' = Set(pending, w, {})
    /\ written' = Set(written, w, NoSource)
    /\ lock' = IF lock = w THEN 0 ELSE lock
    /\ pc' = Set(pc, w, "synced")
    /\ UNCHANGED <<serverVars, httpVars, fetchVars, transformVars, clock, idx,
                   current_time, success_count, error_count, stamps, outcomes,
                   before, start, products, result, log, conn>>

\* conn.commit() raises: conn.rollback(), and the error is raised again
CommitFails(w) ==
    /\ pc[w] = "sync"
    /\ idx[w] = Len(products[w])
    /\ db' = RolledBack(db, pending[w])
    /\ pending' = Set(pending, w, {})
    /\ written' = Set(written, w, NoSource)
    /\ lock' = IF lock = w THEN 0 ELSE lock
    /\ pc' = Set(pc, w, "sync_raised")
    /\ UNCHANGED <<serverVars, httpVars, fetchVars, transformVars, source,
                   clock, idx, current_time, success_count, error_count, stamps,
                   outcomes, before, start, products, result, log, conn>>

\* sync_products_to_db(products, conn) called on its own, as
\* test_sync_products_to_db does, on the same store again and again
CallSyncDirect(w) ==
    /\ pc[w] \in {"ready", "synced", "sync_raised"}
    /\ \E batch \in Batches : SyncEnter(w, batch)
    /\ UNCHANGED <<serverVars, storeVars, httpVars, fetchVars, transformVars,
                   start, result, log, conn>>

(***************************************************************************)
(* trigger_sync.                                                           *)
(***************************************************************************)
Error(cause) == [status |-> "error", cause |-> cause]
Success(n) == [status |-> "success", synced |-> n]

\* the credentials trigger_sync requires, had it asked for all four
Required_AllFour == EnvVars

\* if not all([shop_url, access_token])
Required == {"SHOPIFY_SHOP_URL", "SHOPIFY_ACCESS_TOKEN"}

\* the entry of trigger_sync: the credentials are read; a missing one raises
\* ValueError, which the outer except turns into the error result
TriggerSync(w) ==
    /\ pc[w] = "called"
    /\ start' = Set(start, w, db)
    /\ IF Required \subseteq env
       THEN /\ pc' = Set(pc, w, "init_shopify")
            /\ result' = result
       ELSE /\ pc' = Set(pc, w, "done")
            /\ result' = Set(result, w, Error("config"))
    /\ UNCHANGED <<serverVars, storeVars, httpVars, fetchVars, syncVars,
                   transformVars, clock, products, log, conn>>

\* init_shopify(shop_url, access_token): Session.setup with whatever
\* SHOPIFY_API_KEY and SHOPIFY_API_SECRET hold, and activate_session; it may
\* raise
InitShopify(w) ==
    /\ pc[w] = "init_shopify"
    /\ log' = Set(log, w, Append(log[w], "init_shopify"))
    /\ \E ok \in BOOLEAN :
        IF ok
        THEN /\ pc' = Set(pc, w, "init_db")
             /\ result' = result
        ELSE /\ pc' = Set(pc, w, "done")
             /\ result' = Set(result, w, Error("init_shopify"))
    /\ UNCHANGED <<serverVars, storeVars, httpVars, fetchVars, syncVars,
                   transformVars, clock, products, start, conn>>

\* conn = init_db(): sqlite3.connect, then CREATE TABLE IF NOT EXISTS and
\* commit.  connect may raise, and then there is no connection; the statement
\* or the commit may raise on the connection that connect returned (the file
\* is not a database, the database is locked), and init_db logs and raises
\* again without closing it
InitDb(w) ==
    /\ pc[w] = "init_db"
    /\ log' = Set(log, w, Append(log[w], "init_db"))
    /\ \E connected \in BOOLEAN, created \in BOOLEAN :
        /\ conn' = Set(conn, w, IF connected THEN "open" ELSE "none")
        /\ IF connected /\ created
           THEN /\ pc' = Set(pc, w, "opened")
                /\ result' = result
           ELSE /\ pc' = Set(pc, w, "done")
                /\ result' = Set(result, w, Error("init_db"))
    /\ UNCHANGED <<serverVars, storeVars, httpVars, fetchVars, syncVars,
                   transformVars, clock, products, start>>

\* products = get_all_products(): the call, with products = [] and page = 1
CallGetAllProducts(w) ==
    /\ pc[w] = "opened"
    /\ log' = Set(log, w, Append(log[w], "get_all_products"))
    /\ products' = Set(products, w, << >>)
    /\ page' = Set(page, w, 1)
    /\ requests' = Set(requests, w, << >>)
    /\ pc' = Set(pc, w, "fetch")
    /\ UNCHANGED <<serverVars, storeVars, httpVars, syncVars, transformVars,
                   clock, start, result, conn>>

\* sync_products_to_db(products, conn): the call
CallSyncProducts(w) ==
    /\ pc[w] = "fetched"
    /\ log' = Set(log, w, Append(log[w], "sync_products_to_db"))
    /\ SyncEnter(w, products[w])
    /\ UNCHANGED <<serverVars, storeVars, httpVars, fetchVars, transformVars,
                   start, result, conn>>

\* both calls returned: the success result, and the finally clause closes conn
TriggerSyncReturns(w) ==
    /\ pc[w] = "synced"
    /\ log' = Set(log, w, log[w] \o <<"report", "close">>)
    /\ conn' = Set(conn, w, "closed")
    /\ result' = Set(result, w, Success(Len(products[w])))
    /\ pc' = Set(pc, w, "done")
    /\ UNCHANGED <<serverVars, storeVars, httpVars, fetchVars, syncVars,
                   transformVars, clock, products, start>>

\* a call raised: the finally clause closes conn and the outer except returns
\* the error result
TriggerSyncFails(w) ==
    /\ pc[w] \in {"fetch_raised", "sync_raised"}
    /\ log' = Set(log, w, Append(log[w], "close"))
    /\ conn' = Set(conn, w, "closed")
    /\ result' = Set(result, w,
                     Error(IF pc[w] = "fetch_raised" THEN "fetch" ELSE "commit"))
    /\ pc' = Set(pc, w, "done")
    /\ UNCHANGED <<serverVars, storeVars, httpVars, fetchVars, syncVars,
                   transformVars, clock, products, start>>

Run(w) ==
    \/ TriggerSync(w)
    \/ InitShopify(w)
    \/ InitDb(w)
    \/ CallGetAllProducts(w)
    \/ FetchPage(w)
    \/ CallSyncProducts(w)
    \/ UpsertRecord(w)
    \/ Commit(w)
    \/ CommitFails(w)
    \/ TriggerSyncReturns(w)
    \/ TriggerSyncFails(w)

(***************************************************************************)
(* sync_trigger: POST /sync/trigger.                                       *)
(***************************************************************************)
Started == [status |-> "started", code |-> 200]
NotStarted == [status |-> "error", code |-> 500]

\* sync_trigger that turns a request away while a sync is in flight
SyncTrigger_Serialized ==
    /\ Len(responses) < MaxTriggers
    /\ \A w \in Workers : pc[w] \in {"unborn", "done"}
    /\ \E ok \in BOOLEAN :
        IF ok
        THEN /\ started' = started + 1
             /\ pc' = Set(pc, started + 1, "called")
             /\ responses' = Append(responses, Started)
        ELSE /\ responses' = Append(responses, NotStarted)
             /\ UNCHANGED <<started, pc>>
    /\ UNCHANGED <<serverVars, storeVars, fetchVars, syncVars, transformVars,
                   clock, products, start, result, log, conn>>

\* one request: a thread is made for trigger_sync and started; the response is
\* "started", or the 500 error when starting the thread raised
SyncTrigger ==
    /\ Len(responses) < MaxTriggers
    /\ \E ok \in BOOLEAN :
        IF ok
        THEN /\ started' = started + 1
             /\ pc' = Set(pc, started + 1, "called")
             /\ responses' = Append(responses, Started)
        ELSE /\ responses' = Append(responses, NotStarted)
             /\ UNCHANGED <<started, pc>>
    /\ UNCHANGED <<serverVars, storeVars, fetchVars, syncVars, transformVars,
                   clock, products, start, result, log, conn>>

(***************************************************************************)
(* Specifications.                                                         *)
(***************************************************************************)
\* the row the store holds after an earlier run wrote ProductA2
OldRow == transform_product_data(ProductA2, 0)

\* one call of trigger_sync, as test_trigger_sync makes it
Init ==
    /\ WorkersInit("called")
    /\ RestInit
    /\ tin = EmptyDict
    /\ env \in SUBSET EnvVars
    /\ catalog \in SmallCatalogs
    /\ \/ db = {} /\ source = NoSource
       \/ db = {OldRow} /\ source = (OldRow.id :> ProductA2)

Next == Run(1)

Spec == Init /\ [][Next]_vars

\* get_all_products called on its own, as test_get_all_products does
InitFetch ==
    /\ WorkersInit("fetch")
    /\ RestInit
    /\ tin = EmptyDict
    /\ env = EnvVars
    /\ catalog \in Catalogs
    /\ db = {}
    /\ source = NoSource

SpecFetch == InitFetch /\ [][FetchPage(1)]_vars

\* sync_products_to_db called on its own
InitUpsert ==
    /\ WorkersInit("ready")
    /\ RestInit
    /\ tin = EmptyDict
    /\ env = EnvVars
    /\ catalog = << >>
    /\ db = {}
    /\ source = NoSource

NextUpsert ==
    \/ CallSyncDirect(1)
    \/ UpsertRecord(1)
    \/ Commit(1)
    \/ CommitFails(1)

SpecUpsert == InitUpsert /\ [][NextUpsert]_vars

\* the Flask application: requests to /sync/trigger and the threads they start
InitTrigger ==
    /\ WorkersInit("unborn")
    /\ RestInit
    /\ tin = EmptyDict
    /\ env \in {EnvVars, EnvVars \ {"SHOPIFY_ACCESS_TOKEN"}}
    /\ catalog = <<<<ProductA>>>>
    /\ db = {}
    /\ source = NoSource

NextTrigger ==
    \/ SyncTrigger
    \/ \E w \in Workers : Run(w)

SpecTrigger == InitTrigger /\ [][NextTrigger]_vars

\* the column a product key is stored in
ColumnOf(key) == IF key = "body_html" THEN "description" ELSE key

ZeroVariants(product) ==
    \/ "variants" \notin DOMAIN product
    \/ product["variants"] \in {PyNone, PyList(<< >>)}

PriceKeys == {"price", "compare_at_price"}

\* C4, as claimed: a first variant whose price (or compare_at_price) is absent
\* or is the string "0" gives a null price (or compare_at_price).
C4_ZeroStringIsNull ==
    (tout \notin {NotCalled, Raised} /\ ~ZeroVariants(tin)) =>
        LET v == tin["variants"].xs[1]
        IN  \A k \in PriceKeys :
                (k \notin DOMAIN v \/ v[k] = PyStr(<<"0">>)) => tout[k] = PyNone

\* C4, amended: an absent, None, empty-string or numeric-zero price (or
\* compare_at_price) gives null, and the string "0" gives the float 0.0.
C4_FalsyIsNull ==
    (tout \notin {NotCalled, Raised} /\ ~ZeroVariants(tin)) =>
        LET v == tin["variants"].xs[1]
        IN  \A k \in PriceKeys :
                /\ k \notin DOMAIN v => tout[k] = PyNone
                /\ k \in DOMAIN v =>
                    /\ v[k] \in {PyNone, PyStr(<< >>), PyInt(0), PyFloat(0, 0)}
                            => tout[k] = PyNone
                    /\ v[k] = PyStr(<<"0">>) => tout[k] = PyFloat(0, 0)

C4_Witness ==
    /\ tout \notin {NotCalled, Raised}
    /\ ~ZeroVariants(tin)
    /\ "price" \in DOMAIN tin["variants"].xs[1]
    /\ tin["variants"].xs[1]["price"] = PyStr(<<"0">>)
    /\ "compare_at_price" \notin DOMAIN tin["variants"].xs[1]
    /\ tout["price"] = PyFloat(0, 0)
    /\ tout["compare_at_price"] = PyNone

\* C10: a record with no variants (the key absent, None or an empty list) is
\* transformed without raising and with null price, compare_at_price, sku and
\* inventory_quantity; every product key and every key of the first variant
\* that is missing gives a null column; and transform raises only on a price
\* or compare_at_price that is present as a non-empty string.
C10_SparseRecordIsNull ==
    tout # NotCalled =>
        /\ ZeroVariants(tin) =>
            /\ tout # Raised
            /\ \A c \in VariantKeys : tout[c] = PyNone
        /\ tout # Raised =>
            \A k \in ProductKeys \ DOMAIN tin : tout[ColumnOf(k)] = PyNone
        /\ (tout # Raised /\ ~ZeroVariants(tin)) =>
            \A k \in VariantKeys \ DOMAIN tin["variants"].xs[1] : tout[k] = PyNone
        /\ tout = Raised =>
            /\ ~ZeroVariants(tin)
            /\ \E k \in PriceKeys :
                /\ k \in DOMAIN tin["variants"].xs[1]
                /\ tin["variants"].xs[1][k].kind = "str"
                /\ tin["variants"].xs[1][k].s # << >>

C10_Witness ==
    /\ tout \notin {NotCalled, Raised}
    /\ tin = WithVariants(Sample({"id", "title"}), PyList(<< >>))
    /\ tout["id"] = PyInt(1)
    /\ tout["description"] = PyNone
    /\ tout["price"] = PyNone
    /\ tout["sku"] = PyNone

(***************************************************************************)
(* Properties of get_all_products.                                         *)
(***************************************************************************)
\* how many pages come before the first empty page of c
LeadingPages(c) ==
    CHOOSE n \in 0..Len(c) :
        /\ \A i \in 1..n : c[i] # << >>
        /\ n < Len(c) => c[n + 1] = << >>

\* the request for page n, answered
Asked(n) == [page |-> n, ok |-> TRUE]

RECURSIVE Concat(_, _)
Concat(c, n) == IF n = 0 THEN << >> ELSE Concat(c, n - 1) \o c[n]

\* C1: when get_all_products returns over a catalog of N non-empty pages and
\* then an empty page, it returns the N pages concatenated in page order and
\* it has asked for the pages 1, 2, ..., N+1, each once and in this order;
\* while it runs, the pages asked so far are 1, 2, ... and what it holds is the
\* concatenation of the pages answered.
C1_FetchesAllPagesInOrder ==
    \A w \in Workers :
        /\ pc[w] = "fetched" =>
            /\ products[w] = Concat(catalog, LeadingPages(catalog))
            /\ requests[w] = [i \in 1..(LeadingPages(catalog) + 1) |-> Asked(i)]
        /\ pc[w] = "fetch" =>
            /\ requests[w] = [i \in 1..(page[w] - 1) |-> Asked(i)]
            /\ page[w] - 1 <= LeadingPages(catalog)
            /\ products[w] = Concat(catalog, page[w] - 1)

C1_Witness ==
    /\ pc[1] = "fetched"
    /\ Len(catalog) = 2
    /\ Len(catalog[1]) = 2
    /\ Len(catalog[2]) = 1
    /\ products[1] = catalog[1] \o catalog[2]
    /\ requests[1] = <<Asked(1), Asked(2), Asked(3)>>

(***************************************************************************)
(* Properties of sync_products_to_db.                                      *)
(***************************************************************************)
Count(seq, x) == Cardinality({i \in 1..Len(seq) : seq[i] = x})

\* the columns of a row other than last_synced_at
NonTimestamp(row) == [c \in Columns \ {"last_synced_at"} |-> row[c]]

\* C2: a product whose transform raises, or whose INSERT fails, is counted in
\* error_count and the loop goes on to the next product without raising;
\* success_count is the number of products written and error_count the number
\* that failed, so that they add up to the number of products taken; and when
\* the call has returned, every product that was written has its row committed.
C2_FailuresAreCountedPerRecord ==
    /\ [](\A w \in Workers :
            pc[w] \in {"sync", "synced"} =>
                /\ Len(outcomes[w]) = idx[w]
                /\ success_count[w] = Count(outcomes[w], "ok")
                /\ error_count[w] = Count(outcomes[w], "failed")
                /\ success_count[w] + error_count[w] = idx[w]
                /\ \A i \in 1..idx[w] :
                    transform_product_data(products[w][i], 0) = Raised
                        => outcomes[w][i] = "failed"
                /\ pc[w] = "synced" =>
                    /\ idx[w] = Len(products[w])
                    /\ \A i \in 1..idx[w] :
                        outcomes[w][i] = "ok" =>
                            \E r \in db : r.id = products[w][i]["id"])
    /\ [][\A w \in Workers :
            (pc[w] = "sync" /\ idx[w] < Len(products[w]) /\ idx'[w] # idx[w]) =>
                /\ pc'[w] = "sync"
                /\ idx'[w] = idx[w] + 1]_vars

C2_Witness ==
    /\ pc[1] = "synced"
    /\ products[1] = <<ProductBad, ProductB>>
    /\ outcomes[1] = <<"failed", "ok">>
    /\ success_count[1] = 1
    /\ error_count[1] = 1
    /\ \E r \in db : r.id = PyInt(2) /\ r.price = PyFloat(0, 0)

\* C3: the table holds one row for an id, and the columns of that row other
\* than last_synced_at are the transform of the product most recently written
\* with that id, on the connection before the commit and in the store after it.
C3_OneRowPerIdLatestWins ==
    /\ \A r1, r2 \in db : r1.id = r2.id => r1 = r2
    /\ \A r \in db :
        /\ r.id \in DOMAIN source
        /\ NonTimestamp(r) = NonTimestamp(transform_product_data(source[r.id], 0))
    /\ \A w \in Workers :
        /\ \A r1, r2 \in pending[w] : r1.id = r2.id => r1 = r2
        /\ \A r \in pending[w] :
            /\ r.id \in DOMAIN written[w]
            /\ NonTimestamp(r) =
                    NonTimestamp(transform_product_data(written[w][r.id], 0))
        /\ \A i \in DOMAIN written[w] : \E r \in pending[w] : r.id = i

\* ProductA was committed by an earlier call; this call wrote ProductA2 and
\* ProductB and committed
C3_Witness ==
    /\ pc[1] = "synced"
    /\ \E r \in before[1] : r.id = PyInt(1) /\ r.title = ProductA["title"]
    /\ products[1] = <<ProductA2, ProductB>>
    /\ outcomes[1] = <<"ok", "ok">>
    /\ Cardinality(db) = 2
    /\ \E r \in db :
        /\ r.id = PyInt(1)
        /\ r.title = ProductA2["title"]
        /\ r.price = PyNone

\* C8, as claimed: every row one call of sync_products_to_db writes carries
\* the same last_synced_at.
C8_OneTimestampPerBatch ==
    \A w \in Workers : \A t1, t2 \in stamps[w] : t1 = t2

(***************************************************************************)
(* Properties of trigger_sync and sync_trigger.                            *)
(***************************************************************************)
\* C5: when conn.commit() raises, the pending rows are rolled back, so that
\* the store holds the rows it held when sync_products_to_db was called, the
\* error is raised to trigger_sync, and trigger_sync returns the error result.
C5_CommitFailureRollsBack ==
    /\ [](\A w \in Workers :
            (\/ pc[w] = "sync_raised"
             \/ pc[w] = "done" /\ result[w] = Error("commit")) =>
                /\ db = before[w]
                /\ pending[w] = {}
                /\ lock # w)
    /\ [][\A w \in Workers :
            (pc[w] = "sync_raised" /\ pc'[w] # pc[w]) =>
                /\ pc'[w] = "done"
                /\ result'[w] = Error("commit")
                /\ db' = db]_vars

\* every product was written, and the commit failed
C5_Witness ==
    /\ pc[1] = "done"
    /\ result[1] = Error("commit")
    /\ products[1] = <<ProductA, ProductA>>
    /\ outcomes[1] = <<"ok", "ok">>
    /\ db = {OldRow}

\* C6: once a page request has failed it is the last request of the call,
\* get_all_products raises with nothing returned, sync_products_to_db is not
\* called, trigger_sync closes the store, whose rows are those of the start of
\* the run, and returns the error result.
C6_FetchFailureAbortsRun ==
    /\ [](\A w \in Workers :
            \A i \in 1..Len(requests[w]) :
                ~requests[w][i].ok =>
                    /\ i = Len(requests[w])
                    /\ pc[w] \in {"fetch_raised", "done"}
                    /\ products[w] = << >>
                    /\ outcomes[w] = << >>
                    /\ db = start[w]
                    /\ pc[w] = "done" =>
                        /\ result[w] = Error("fetch")
                        /\ log[w] = <<"init_shopify", "init_db",
                                      "get_all_products", "close">>)
    /\ [][\A w \in Workers :
            (pc[w] = "fetch_raised" /\ pc'[w] # pc[w]) => pc'[w] = "done"]_vars

\* the request for the second page failed
C6_Witness ==
    /\ pc[1] = "done"
    /\ result[1] = Error("fetch")
    /\ requests[1] = <<Asked(1), [page |-> 2, ok |-> FALSE]>>
    /\ Len(catalog) = 2
    /\ db = {OldRow}

\* C7, as claimed: with any of the four credentials missing, trigger_sync
\* returns the configuration error and has made no call of init_shopify, of
\* init_db or for a page.
C7_AnyMissingCredentialStops ==
    \A w \in Workers :
        (pc[w] \notin {"unborn", "called"} /\ ~(EnvVars \subseteq env)) =>
            /\ pc[w] = "done"
            /\ result[w] = Error("config")
            /\ log[w] = << >>
            /\ requests[w] = << >>

\* C7, amended: with SHOPIFY_SHOP_URL or SHOPIFY_ACCESS_TOKEN missing,
\* trigger_sync returns the configuration error and has made no call of
\* init_shopify, of init_db or for a page, and the store is untouched; with
\* both set the run goes on, whatever SHOPIFY_API_KEY and SHOPIFY_API_SECRET
\* hold; and a run that has returned does nothing more.
C7_MissingUrlOrTokenStops ==
    /\ [](\A w \in Workers :
            pc[w] \notin {"unborn", "called"} =>
                /\ ~({"SHOPIFY_SHOP_URL", "SHOPIFY_ACCESS_TOKEN"} \subseteq env) =>
                    /\ pc[w] = "done"
                    /\ result[w] = Error("config")
                    /\ log[w] = << >>
                    /\ requests[w] = << >>
                    /\ db = start[w]
                /\ {"SHOPIFY_SHOP_URL", "SHOPIFY_ACCESS_TOKEN"} \subseteq env =>
                    /\ result[w] # Error("config")
                    /\ Len(log[w]) > 0 => log[w][1] = "init_shopify")
    /\ [][\A w \in Workers :
            pc[w] = "done" =>
                /\ pc'[w] = "done"
                /\ result'[w] = result[w]
                /\ log'[w] = log[w]
                /\ requests'[w] = requests[w]]_vars

C7_Witness ==
    /\ env = EnvVars \ {"SHOPIFY_ACCESS_TOKEN"}
    /\ pc[1] = "done"
    /\ result[1] = Error("config")
    /\ log[1] = << >>
    /\ db = {OldRow}

\* C9, as claimed: every request to /sync/trigger starts one worker and is
\* answered "started".
C9_EveryTriggerStartsAWorker ==
    /\ started = Len(responses)
    /\ \A i \in 1..Len(responses) : responses[i] = Started

\* C9, amended: a request to /sync/trigger is taken whatever the workers are
\* doing; it starts one worker and is answered "started" at once, or, when
\* starting the thread raises, starts none and is answered with the 500
\* error; it waits for no worker and stops none, and the workers started are
\* as many as the "started" answers, with no limit but the number of requests.
C9_TriggerStartsOneWorkerOrFails ==
    /\ [](/\ started = Count(responses, Started)
          /\ \A i \in 1..Len(responses) : responses[i] \in {Started, NotStarted}
          /\ \A w \in Workers : pc[w] # "unborn" <=> w <= started
          /\ Len(responses) < MaxTriggers => ENABLED SyncTrigger)
    /\ [][responses' # responses =>
            /\ Len(responses') = Len(responses) + 1
            /\ \A w \in Workers :
                pc[w] # "unborn" => pc'[w] = pc[w] /\ result'[w] = result[w]
            /\ responses'[Len(responses')] = Started =>
                /\ started' = started + 1
                /\ pc'[started'] = "called"
            /\ responses'[Len(responses')] = NotStarted =>
                /\ started' = started
                /\ pc' = pc]_vars

\* two syncs are in their write loops on the same store: the first holds
\* rows it has not committed, the second has taken a product too
C9_Witness ==
    /\ responses = <<Started, Started>>
    /\ pc[1] = "sync"
    /\ pc[2] = "sync"
    /\ pending[1] # {}
    /\ lock = 1
    /\ idx[2] > 0

(***************************************************************************)
(* The order of a run of trigger_sync and the life of its connection.      *)
(***************************************************************************)
\* the steps of a run in the order trigger_sync takes them: init_shopify,
\* init_db, get_all_products, sync_products_to_db, the success result
Steps == <<"init_shopify", "init_db", "get_all_products",
           "sync_products_to_db", "report">>

\* the steps the run of w has taken, conn.close() left out
StepsTaken(w) == SelectSeq(log[w], LAMBDA c : c # "close")

IsPrefix(s, t) == Len(s) <= Len(t) /\ s = SubSeq(t, 1, Len(s))

\* get_all_products returned: every page up to the first empty one was asked
\* for and answered, and the pages before it are what the run holds
FetchCompleted(w) ==
    /\ requests[w] = [i \in 1..(LeadingPages(catalog) + 1) |-> Asked(i)]
    /\ products[w] = Concat(catalog, LeadingPages(catalog))

\* sync_products_to_db returned: the loop took every product, nothing is
\* pending, and the row of every product written is in the store
UpsertCompleted(w) ==
    /\ Count(log[w], "sync_products_to_db") = 1
    /\ Len(outcomes[w]) = Len(products[w])
    /\ pending[w] = {}
    /\ lock # w
    /\ \A i \in 1..Len(outcomes[w]) :
        outcomes[w][i] = "ok" =>
            \E r \in db :
                NonTimestamp(r) =
                    NonTimestamp(transform_product_data(products[w][i], 0))

\* sqlite3.connect returned a connection to the run of w
HandleOpened(w) == conn[w] # "none"

\* init_db returned the connection to trigger_sync, which went on to fetch
HandleReturned(w) == Len(StepsTaken(w)) >= 3

\* the state part of C11 for the run of w, opened saying which runs count as
\* having opened the store handle
LinearRun(w, opened) ==
    /\ IsPrefix(StepsTaken(w), Steps)
    /\ Count(log[w], "close") <= 1
    /\ Count(log[w], "close") = 1 =>
        /\ pc[w] = "done"
        /\ log[w][Len(log[w])] = "close"
        /\ conn[w] = "closed"
    /\ pc[w] = "done" =>
        /\ result[w].status \in {"success", "error"}
        /\ opened => Count(log[w], "close") = 1 /\ conn[w] = "closed"
        /\ result[w].status = "success" =>
            /\ FetchCompleted(w)
            /\ UpsertCompleted(w)
            /\ StepsTaken(w) = Steps
            /\ result[w] = Success(Len(products[w]))
        /\ result[w].status = "error" => Count(log[w], "report") = 0

\* the step part of C11: the step by which the run of w returns
ReturnStep(w) ==
    (pc[w] # "done" /\ pc'[w] = "done") =>
        /\ result'[w].status = "success" <=> pc[w] = "synced"
        /\ pc[w] \in {"fetch_raised", "sync_raised"} =>
            /\ result'[w].status = "error"
            /\ conn[w] = "open"
            /\ conn'[w] = "closed"
        /\ pc[w] = "synced" => conn[w] = "open" /\ conn'[w] = "closed"

\* C11, as claimed: in every run of trigger_sync in which the store handle
\* was opened, the steps are taken in the order init_shopify, init_db,
\* get_all_products, sync_products_to_db, report, the handle is closed exactly
\* once before trigger_sync returns, whether the fetch and the upsert
\* succeeded or failed, and trigger_sync returns success only when both
\* completed and an error result otherwise.
C11_OpenedHandleIsClosedOnce ==
    /\ [](\A w \in Workers : LinearRun(w, HandleOpened(w)))
    /\ [][\A w \in Workers : ReturnStep(w)]_vars

\* C11 for the runs in which init_db returned the handle: the same order, one
\* close before the return, and the same results.
C11_ReturnedHandleIsClosedOnce ==
    /\ [](\A w \in Workers : LinearRun(w, HandleReturned(w)))
    /\ [][\A w \in Workers : ReturnStep(w)]_vars

\* sqlite3.connect returned a connection, CREATE TABLE or the commit raised
\* on it, and trigger_sync has returned the error without closing it
C11_Witness ==
    /\ pc[1] = "done"
    /\ result[1] = Error("init_db")
    /\ conn[1] = "open"
    /\ log[1] = <<"init_shopify", "init_db">>

\* the fetch failed after init_db returned, and the handle was closed once
C11_ClosedAfterFailedFetch ==
    /\ pc[1] = "done"
    /\ result[1] = Error("fetch")
    /\ conn[1] = "closed"
    /\ log[1] = <<"init_shopify", "init_db", "get_all_products", "close">>

====
